---- MODULE Spec2Model ----
(***************************************************************************)
(* Balance ledger of the wallet service: registration provisions a balance *)
(* row (trigger initialize_user_balance), POST /topup and POST /transaction *)
(* run inside one database transaction each (transaction.controller.js),   *)
(* and every inserted user_transactions row gets its invoice number from   *)
(* the BEFORE INSERT trigger generate_invoice_number (0000_init.sql).      *)
(*                                                                         *)
(* The database runs at PostgreSQL's default READ COMMITTED level: a       *)
(* statement sees the rows committed before it started plus the writes of  *)
(* its own transaction; a row lock is held until the transaction ends.     *)
(* transaction.service.js is not part of the sources at hand; the steps of *)
(* topUpBalance / createTransaction follow section 4.3 of the design, and  *)
(* the queries of getBalance / getTransactionHistory sections 4.4 and 6.   *)
(*                                                                         *)
(* Spec is the ledger under concurrent top-ups and payments with faults,   *)
(* SpecBusy a day on which the daily sequence gains a digit, SpecRead the  *)
(* readers (GET /balance, GET /transaction/history) next to the writers,   *)
(* SpecRegister POST /registration statement by statement, SpecGate the    *)
(* four transaction routes with and without credentials, SpecDays the      *)
(* ledger over midnight, SpecRender the rendering step of the trigger for  *)
(* every sequence value up to MaxSeq, SpecPages and SpecQuery a client     *)
(* paging through entries with equal timestamps and sending any text as    *)
(* offset and limit, SpecLive two identities under fair scheduling, and    *)
(* SpecBrim a balance at the top of its column's range.                    *)
(***************************************************************************)
EXTENDS Integers, Sequences, FiniteSets, TLC

\* ------------------------------------------------------------ bounds
\* requests and midnights in one behaviour
MaxEvents == 3
\* largest top_up_amount a client sends
MaxAmount == 2
\* calendar days a behaviour spans
MaxDay == 2

\* request slots (concurrent HTTP requests) and the ids users.id can take
Procs == {1, 2}
Users == {1, 2}

\* the value of a field of a JSON request body: a number, a string that is
\* not a number ('abc'), or nothing when the field is missing
Number(n) == [type |-> "number", value |-> n]
NotANumber == [type |-> "string", value |-> 0]
Missing == [type |-> "undefined", value |-> 0]

\* the Authorization header of a request: absent, a bearer token that does
\* not verify (forged or expired), or the token issued to identity u
NoHeader == [scheme |-> "none", verifies |-> FALSE, userId |-> 0]
InvalidToken == [scheme |-> "Bearer", verifies |-> FALSE, userId |-> 0]
Token(u) == [scheme |-> "Bearer", verifies |-> TRUE, userId |-> u]

\* top_up_amount values a client may send (valid and invalid ones)
TopUpInputs == {Number(n) : n \in (0 - 1)..MaxAmount} \cup {NotANumber, Missing}

\* services table (catalog collaborator): code -> tariff
ServiceCodes == {"PULSA", "PLN"}
RequestCodes == ServiceCodes \cup {"INVALID_SERVICE"}
Tariff(code) == IF code = "PULSA" THEN 1 ELSE 2
ServiceName(code) == IF code = "PULSA" THEN "Pulsa" ELSE "Listrik"

\* ------------------------------------------------------------ schema
\* user_balance.balance / user_transactions.total_amount are "integer"
MaxInt32 == 2147483647

\* trigger initialize_user_balance: VALUES (NEW.id, 0)
InitialBalanceNegative == 0 - 1
InitialBalance == 0

\* the user_balance rows that trigger_initialize_user_balance inserts AFTER
\* INSERT ON users FOR EACH ROW, for the users row with id `id`
initialize_user_balance_none(id) == {}
initialize_user_balance(id) == {[user_id |-> id, balance |-> InitialBalance]}

\* table user_balance (user id -> balance) with the rows rs added
WithRows(bal, rs) ==
    [x \in DOMAIN bal \cup {r.user_id : r \in rs} |->
        IF x \in DOMAIN bal THEN bal[x]
        ELSE (CHOOSE r \in rs : r.user_id = x).balance]

\* e-mail addresses clients register with, and email.toLowerCase()
EmailInputs == {"a@mail.id", "A@mail.id", "b@mail.id"}
toLowerCase(e) == IF e = "A@mail.id" THEN "a@mail.id" ELSE e

\* generate_invoice_number: GREATEST(3, LENGTH(next_sequence::TEXT))
MinDigits == 3

VARIABLES
    registered,  \* ids of the rows of table users
    emails,      \* committed users rows: user id -> email
    nextUserId,  \* next value of the serial users.id
    balance,     \* committed user_balance rows: user id -> balance
    ledger,      \* committed user_transactions rows, in commit order
    nextId,      \* next value of the serial user_transactions.id
    today,       \* CURRENT_DATE of the database server
    clock,       \* instant of the server clock: it has moved on whenever a
                 \* unit of work has committed
    tx,          \* per request slot: the running request and its transaction
    events       \* requests started and midnights passed so far

vars == <<registered, emails, nextUserId, balance, ledger, nextId, today, clock, tx, events>>

NoRow == [id |-> 0]
NoResp == [http |-> 0, status |-> 0, message |-> "none"]
NoData == [balance |-> 0, offset |-> 0, limit |-> 0, records |-> <<>>]
NoQuery == [offset |-> <<>>, limit |-> <<>>]

Idle ==
    [pc |-> "idle", op |-> "none", user |-> 0, amount |-> 0, code |-> "none",
     day |-> 0, at |-> 0, cur |-> 0, newBal |-> 0, written |-> FALSE,
     row |-> NoRow, resp |-> NoResp, data |-> NoData, query |-> NoQuery,
     email |-> "none", b0 |-> 0, l0 |-> 0, seq |-> 0, client |-> FALSE]

\* db_conn.transaction(callback): a client is taken from the pool (connect),
\* BEGIN, the callback, COMMIT or ROLLBACK, and in every case the client goes
\* back to the pool (release)
connect(t) == [t EXCEPT !.client = TRUE]
releaseOnCommitOnly(t) == IF t.pc = "inserted" THEN [t EXCEPT !.client = FALSE] ELSE t
release(t) == [t EXCEPT !.client = FALSE]

\* a timestamp is a calendar day and an instant; DATE(ts) is its day
DATEOfNull(ts) == 0
DATE(ts) == ts.date

\* ------------------------------------------------------------ text helpers
RECURSIVE Digits(_)
\* n::TEXT for n >= 0: the decimal digits, most significant first
Digits(n) == IF n < 10 THEN <<n>> ELSE Digits(n \div 10) \o <<n % 10>>

\* LPAD(s, w, '0'): pads on the left, truncates on the right when s is longer
LPad(s, w) ==
    IF Len(s) >= w THEN SubSeq(s, 1, w)
    ELSE [i \in 1..(w - Len(s)) |-> 0] \o s

RECURSIVE ParseInt(_)
\* CAST(digits AS INT)
ParseInt(s) ==
    IF Len(s) = 0 THEN 0
    ELSE 10 * ParseInt(SubSeq(s, 1, Len(s) - 1)) + s[Len(s)]

Max(a, b) == IF a >= b THEN a ELSE b

RECURSIVE TextLess(_, _)
\* a < b in the text ordering used by ORDER BY on a text column
TextLess(a, b) ==
    IF Len(b) = 0 THEN FALSE
    ELSE IF Len(a) = 0 THEN TRUE
    ELSE IF a[1] # b[1] THEN a[1] < b[1]
    ELSE TextLess(Tail(a), Tail(b))

\* ------------------------------------------------------------ invoice trigger
RECURSIVE LastInvoiceIn(_, _, _, _)
\* SELECT invoice_number ... WHERE DATE(created_on) = CURRENT_DATE
\*   AND invoice_number LIKE 'INV' || current_date_str || '-%'
\*   ORDER BY invoice_number DESC LIMIT 1
\* over rows[lo..hi]; <<>> stands for "no row" (NULL).  All rows that pass the
\* filter share the prefix 'INV' || date || '-', so the text order of the
\* invoice numbers is the text order of their sequence parts.
LastInvoiceIn(rows, d, lo, hi) ==
    IF lo > hi THEN <<>>
    ELSE IF lo = hi THEN
        IF DATE(rows[lo].created_on) = d /\ rows[lo].invoice.date = d
        THEN rows[lo].invoice.seq ELSE <<>>
    ELSE LET mid == (lo + hi) \div 2
             l == LastInvoiceIn(rows, d, lo, mid)
             r == LastInvoiceIn(rows, d, mid + 1, hi)
         IN IF TextLess(l, r) THEN r ELSE l

last_invoice_of_any_day(rows, d) ==
    LastInvoiceIn([i \in DOMAIN rows |->
                      [rows[i] EXCEPT !.created_on.date = d, !.invoice.date = d]],
                  d, 1, Len(rows))
last_invoice(rows, d) == LastInvoiceIn(rows, d, 1, Len(rows))

\* IF last_invoice IS NOT NULL THEN last_sequence + 1 ELSE 1
next_sequence(rows, d) ==
    LET last == last_invoice(rows, d)
    IN IF last # <<>> THEN ParseInt(last) + 1 ELSE 1

\* 'INV' || current_date_str || '-' || LPAD(next_sequence::TEXT, min_digits, '0')
render_invoice_fixed(d, n) == [date |-> d, seq |-> LPad(Digits(n), MinDigits)]
render_invoice(d, n) ==
    LET min_digits == Max(MinDigits, Len(Digits(n)))
    IN [date |-> d, seq |-> LPad(Digits(n), min_digits)]

\* the trigger: the invoice number given to a row inserted by a statement that
\* sees `rows`, in a transaction whose CURRENT_DATE is d
generate_invoice_number(rows, d) == render_invoice(d, next_sequence(rows, d))

\* The text of an invoice number.  A character is a number: a digit is its
\* value, any other character its ASCII code.
INV == <<73, 78, 86>>
Dash == 45

\* TO_CHAR(CURRENT_DATE, 'DDMMYYYY'), day d being the d-th of August 2023
current_date_str(d) == LPad(Digits(d), 2) \o <<0, 8>> \o <<2, 0, 2, 3>>

\* the column value: 'INV' || current_date_str || '-' || the sequence part
invoice_number(inv) == INV \o current_date_str(inv.date) \o <<Dash>> \o inv.seq

RECURSIVE TrailingDigits(_)
\* SUBSTRING(text FROM '[0-9]+$'): the digits the text ends with
TrailingDigits(text) ==
    IF Len(text) = 0 THEN <<>>
    ELSE IF text[Len(text)] > 9 THEN <<>>
    ELSE TrailingDigits(SubSeq(text, 1, Len(text) - 1)) \o <<text[Len(text)]>>

\* numeric SEQ of a stored invoice number
SeqOf(row) == ParseInt(row.invoice.seq)

\* ------------------------------------------------------------ authentication
\* extractTokenFromHeader: the token of "Bearer <token>", or null
extractTokenFromHeader(h) == h.scheme = "Bearer"

\* verifyToken: the signature is valid and the token has not expired
verifyToken(h) == h.verifies

\* authenticate: next() for a bearer token that verifies, else 401
authenticateAnyone(h) == TRUE
authenticate(h) == extractTokenFromHeader(h) /\ verifyToken(h)

\* req.middleware.auth.user.userId
userId(h) == h.userId

\* ------------------------------------------------------------ validation
\* validateTopUp: notEmpty, isInt({min: 0}) and the custom rule that throws
\* when value <= 0 (the comparison is false for 'abc' and for undefined)
notEmpty(a) == a.type # "undefined"
isIntMin0(a) == a.type = "number" /\ a.value >= 0
customPositive(a) == ~(a.type = "number" /\ a.value <= 0)
validateTopUpLax(a) == notEmpty(a) /\ isIntMin0(a)
validateTopUp(a) == notEmpty(a) /\ isIntMin0(a) /\ customPositive(a)

\* validateTransaction: service_code is a non-empty string
validateTransaction(c) == c # ""

\* ------------------------------------------------------------ responses
ValidationMsg == "Paramter amount hanya boleh angka dan tidak boleh lebih kecil dari 0"
RequiredMsg == "Top up amount is required"
\* the first error of the chain: notEmpty's when the field is missing
TopUpValidationMsg(a) == IF notEmpty(a) THEN ValidationMsg ELSE RequiredMsg
ServiceMsg == "Service ataus Layanan tidak ditemukan"
BalanceMsg == "Balance tidak mencukupi"
UserMsg == "User not found"
GenericMsg == "Internal server error"

\* unauthorized(res, 'Token tidak tidak valid atau kadaluwarsa')
TokenMsg == "Token tidak tidak valid atau kadaluwarsa"
UnauthorizedResponse == [http |-> 401, status |-> 108, message |-> TokenMsg]

\* handleValidationErrors: badRequest(res, firstError.msg, null, 102)
ValidationResponse(msg) == [http |-> 400, status |-> 102, message |-> msg]

\* topUp, the err branch: the response for an error thrown in the transaction
topUpError(msg) ==
    IF msg = ValidationMsg THEN [http |-> 400, status |-> 102, message |-> msg]
    ELSE IF msg = UserMsg THEN [http |-> 404, status |-> 102, message |-> UserMsg]
    ELSE [http |-> 500, status |-> 100, message |-> GenericMsg]

\* getBalance and getTransactionHistory, the err branch
getBalanceError(msg) == [http |-> 500, status |-> 100, message |-> GenericMsg]

\* createTransaction, the err branch
createTransactionErrorGeneric(msg) ==
    [http |-> 500, status |-> 100, message |-> GenericMsg]
createTransactionError(msg) ==
    IF msg = ServiceMsg THEN [http |-> 400, status |-> 102, message |-> msg]
    ELSE IF msg = BalanceMsg THEN [http |-> 400, status |-> 102, message |-> msg]
    ELSE [http |-> 500, status |-> 100, message |-> GenericMsg]

\* register, the txErr branch
EmailMsg == "Email sudah terdaftar"
registerError(msg) ==
    IF msg = EmailMsg THEN [http |-> 400, status |-> 102, message |-> msg]
    ELSE [http |-> 500, status |-> 100, message |-> GenericMsg]

ErrorResponse(op, msg) ==
    IF op = "topup" THEN topUpError(msg)
    ELSE IF op = "register" THEN registerError(msg)
    ELSE createTransactionError(msg)

\* success(res, 'Top Up Balance berhasil' / 'Transaksi berhasil' / ..., dto)
SuccessResponse(op) ==
    [http |-> 200, status |-> 0,
     message |-> IF op = "topup" THEN "Top Up Balance berhasil"
                 ELSE IF op = "debit" THEN "Transaksi berhasil"
                 ELSE IF op = "balance" THEN "Get Balance Berhasil"
                 ELSE IF op = "register" THEN "Registrasi berhasil silahkan login"
                 ELSE "Get History Berhasil"]

\* ------------------------------------------------------------ response data
\* what topUpBalance returns for the committed transaction t: the new balance
TopUpResult(t) == [balance |-> t.newBal]

toTopUpResponseDTO(result) == [NoData EXCEPT !.balance = result.balance]

\* what createTransaction returns for the committed transaction t: the entry
\* it inserted, with the code and the name of the service
TransactionResult(t) ==
    [invoice_number |-> t.row.invoice, service_code |-> t.code,
     service_name |-> ServiceName(t.code), transaction_type |-> t.row.type,
     total_amount |-> t.row.total_amount, created_on |-> t.row.created_on]

toTransactionResponseDTOBlank(transaction) ==
    [transaction EXCEPT !.invoice_number = [date |-> 0, seq |-> <<>>]]
toTransactionResponseDTO(transaction) ==
    [invoice_number |-> transaction.invoice_number,
     service_code |-> transaction.service_code,
     service_name |-> transaction.service_name,
     transaction_type |-> transaction.transaction_type,
     total_amount |-> transaction.total_amount,
     created_on |-> transaction.created_on]

\* the data of the success response of the committed transaction t
ResponseData(t) ==
    IF t.op = "topup" THEN toTopUpResponseDTO(TopUpResult(t))
    ELSE toTransactionResponseDTO(TransactionResult(t))

\* ------------------------------------------------------------ transactions
\* db_conn.transaction(async (tx) => ...): every statement of the callback runs
\* in one transaction, so a row lock taken by a statement is held at all the
\* later steps of the callback, until COMMIT or ROLLBACK.
LockScopeStatement == {}
LockScope == {"updated", "inserted"}

InTx == {"started", "updated", "inserted"}

HoldsTableLock(q, u) == tx[q].pc \in LockScope
HoldsLockFromBegin(q, u) == tx[q].pc \in InTx /\ tx[q].user = u
HoldsLock(q, u) == tx[q].pc \in LockScope /\ tx[q].user = u

\* auto-rollback on error: the balance written by transaction t is discarded
RolledBackBalanceKept(t) ==
    IF t.written THEN [balance EXCEPT ![t.user] = t.newBal] ELSE balance
RolledBackBalanceRestored(t) ==
    IF t.user \in DOMAIN balance THEN [balance EXCEPT ![t.user] = t.b0] ELSE balance
RolledBackBalance(t) == balance

\* auto-rollback on error: the row inserted by transaction t is discarded
RolledBackLedgerKept(t) ==
    IF t.row # NoRow THEN Append(ledger, t.row) ELSE ledger
RolledBackLedger(t) == ledger

\* auto-commit when the callback resolves: the balance written and the row
\* inserted by transaction t become visible together
CommittedBalanceStale(t) == balance
CommittedBalance(t) == [balance EXCEPT ![t.user] = t.newBal]

CommittedLedgerDropped(t) == ledger
CommittedLedgerOverwritten(t) ==
    IF ledger = <<>> THEN <<t.row>> ELSE [ledger EXCEPT ![Len(ledger)] = t.row]
CommittedLedger(t) == Append(ledger, t.row)

\* the callback of request t (in slot p) threw msg: ROLLBACK, then the
\* controller's error response
Throw(p, t, msg) ==
    /\ balance' = RolledBackBalance(t)
    /\ ledger' = RolledBackLedger(t)
    /\ tx' = [tx EXCEPT ![p] = [t EXCEPT !.pc = "done",
                                   !.client = release(t).client,
                                   !.resp = ErrorResponse(t.op, msg),
                                   !.written = FALSE, !.row = NoRow,
                                   !.cur = 0, !.newBal = 0, !.day = 0, !.at = 0,
                                   !.user = IF msg = BalanceMsg THEN t.user ELSE 0,
                                   !.code = IF msg = BalanceMsg THEN t.code ELSE "none",
                                   !.amount = IF msg = BalanceMsg THEN t.amount ELSE 0,
                                   !.b0 = IF msg = BalanceMsg THEN t.b0 ELSE 0,
                                   !.l0 = IF msg = BalanceMsg THEN t.l0 ELSE 0]]

\* ------------------------------------------------------------ actions
Init ==
    /\ registered = {}
    /\ emails = <<>>
    /\ nextUserId = 1
    /\ balance = <<>>
    /\ ledger = <<>>
    /\ nextId = 1
    /\ today = 1
    /\ clock = 1
    /\ tx = [p \in Procs |-> Idle]
    /\ events = 0

\* an e-mail address no committed users row holds
FreshEmail == CHOOSE e \in EmailInputs :
                  e = toLowerCase(e) /\ \A x \in registered : emails[x] # e

\* POST /registration by a new client, start to COMMIT: INSERT INTO users ...
\* fires trigger_initialize_user_balance in the same statement; users.id is a
\* serial
Register ==
    /\ nextUserId \in Users
    /\ LET u == nextUserId
       IN /\ registered' = registered \cup {u}
          /\ emails' = [x \in registered \cup {u} |->
                           IF x = u THEN FreshEmail ELSE emails[x]]
          /\ balance' = WithRows(balance, initialize_user_balance(u))
    /\ nextUserId' = nextUserId + 1
    /\ UNCHANGED <<ledger, nextId, today, clock, tx, events>>

\* midnight passes on the database server
NextDay ==
    /\ today < MaxDay /\ events < MaxEvents
    /\ today' = today + 1
    /\ events' = events + 1
    /\ UNCHANGED <<registered, emails, nextUserId, balance, ledger, nextId, clock, tx>>

Free(p) == tx[p].pc \in {"idle", "done"}

\* the committed balance of identity u when its request arrives (0 when it
\* has no balance row)
CommittedAmount(u) == IF u \in DOMAIN balance THEN balance[u] ELSE 0

\* POST /topup: authenticate, validateTopUp, handleValidationErrors, then
\* topUp opens the transaction
TopUpRequest(p, h, a) ==
    /\ Free(p) /\ events < MaxEvents
    /\ events' = events + 1
    /\ IF ~authenticate(h)
       THEN tx' = [tx EXCEPT ![p] = [Idle EXCEPT !.pc = "done", !.op = "topup",
                       !.resp = UnauthorizedResponse]]
       ELSE IF validateTopUp(a)
       THEN tx' = [tx EXCEPT ![p] = connect([Idle EXCEPT !.pc = "started",
                       !.op = "topup",
                       !.user = userId(h), !.amount = a.value, !.day = today,
                       !.at = clock, !.b0 = CommittedAmount(userId(h)),
                       !.l0 = Len(ledger)])]
       ELSE tx' = [tx EXCEPT ![p] = [Idle EXCEPT !.pc = "done", !.op = "topup",
                       !.resp = ValidationResponse(TopUpValidationMsg(a))]]
    /\ UNCHANGED <<registered, emails, nextUserId, balance, ledger, nextId, today, clock>>

\* POST /transaction: authenticate, validateTransaction, then createTransaction
\* opens the transaction and resolves service_code in the services table
DebitRequest(p, h, c) ==
    /\ Free(p) /\ events < MaxEvents
    /\ validateTransaction(c)
    /\ events' = events + 1
    /\ LET t == connect([Idle EXCEPT !.pc = "started", !.op = "debit",
                    !.user = userId(h), !.code = c, !.day = today,
                    !.at = clock, !.b0 = CommittedAmount(userId(h)),
                    !.l0 = Len(ledger)])
       IN IF ~authenticate(h)
          THEN /\ tx' = [tx EXCEPT ![p] = [Idle EXCEPT !.pc = "done",
                              !.op = "debit", !.resp = UnauthorizedResponse]]
               /\ UNCHANGED <<balance, ledger>>
          ELSE IF c \in ServiceCodes
          THEN /\ tx' = [tx EXCEPT ![p] = [t EXCEPT !.amount = Tariff(c)]]
               /\ UNCHANGED <<balance, ledger>>
          ELSE Throw(p, t, ServiceMsg)
    /\ UNCHANGED <<registered, emails, nextUserId, nextId, today, clock>>

\* the debit's business rule: current < tariff fails with InsufficientBalance
InsufficientAtTariff(cur, tariff) == cur <= tariff
Insufficient(cur, tariff) == cur < tariff

\* cur + amount in the integer column balance, for cur and amount >= 0: the
\* sum, or "integer out of range" when it exceeds 2147483647 (the statement
\* fails); the sum is formed only when it fits
int4pl_wrapping(cur, amount) ==
    IF amount > MaxInt32 - cur
    THEN [ok |-> TRUE, value |-> (cur - MaxInt32) + (amount - MaxInt32) - 2]
    ELSE [ok |-> TRUE, value |-> cur + amount]
int4pl(cur, amount) ==
    IF amount > MaxInt32 - cur THEN [ok |-> FALSE, value |-> 0]
    ELSE [ok |-> TRUE, value |-> cur + amount]

\* read the balance row under an exclusive row lock (waiting for the lock),
\* check it (debit), and write the new balance back; the column is a 32-bit
\* integer
LockAndUpdate(p) ==
    /\ tx[p].pc = "started"
    /\ \A q \in Procs \ {p} : ~HoldsLock(q, tx[p].user)
    /\ IF tx[p].user \notin DOMAIN balance
       THEN Throw(p, tx[p], UserMsg)
       ELSE LET cur == balance[tx[p].user]
                sum == int4pl(cur, tx[p].amount)
                nb == IF tx[p].op = "topup" THEN sum.value
                      ELSE cur - tx[p].amount
            IN IF tx[p].op = "debit" /\ Insufficient(cur, tx[p].amount)
               THEN Throw(p, tx[p], BalanceMsg)
               ELSE IF tx[p].op = "topup" /\ ~sum.ok
               THEN Throw(p, tx[p], "integer out of range")
               ELSE /\ tx' = [tx EXCEPT ![p].pc = "updated", ![p].cur = cur,
                                 ![p].newBal = nb, ![p].written = TRUE]
                    /\ UNCHANGED <<balance, ledger>>
    /\ UNCHANGED <<registered, emails, nextUserId, nextId, today, clock, events>>

\* INSERT INTO user_transactions with invoice_number NULL: the trigger fills it
Insert(p) ==
    /\ tx[p].pc = "updated"
    /\ tx' = [tx EXCEPT ![p].pc = "inserted",
                 ![p].row = [id |-> nextId,
                             user_id |-> tx[p].user,
                             invoice |-> generate_invoice_number(ledger, tx[p].day),
                             service |-> tx[p].code,
                             total_amount |-> tx[p].amount,
                             created_on |-> [date |-> tx[p].day, time |-> tx[p].at],
                             type |-> IF tx[p].op = "topup" THEN "TOPUP" ELSE "PAYMENT"]]
    /\ nextId' = nextId + 1
    /\ UNCHANGED <<registered, emails, nextUserId, balance, ledger, today, clock, events>>

\* the callback returned: COMMIT, then the success response
Commit(p) ==
    /\ tx[p].pc = "inserted"
    /\ balance' = CommittedBalance(tx[p])
    /\ ledger' = CommittedLedger(tx[p])
    /\ tx' = [tx EXCEPT ![p].pc = "done", ![p].resp = SuccessResponse(tx[p].op),
                        ![p].data = ResponseData(tx[p]),
                        ![p].written = FALSE, ![p].cur = 0, ![p].day = 0,
                        ![p].at = 0, ![p].client = release(tx[p]).client]
    /\ clock' = clock + 1
    /\ UNCHANGED <<registered, emails, nextUserId, nextId, today, events>>

\* a statement fails or the connection drops at any step of the transaction
Fault(p) ==
    /\ tx[p].pc \in InTx
    /\ Throw(p, tx[p], "connection terminated")
    /\ UNCHANGED <<registered, emails, nextUserId, nextId, today, clock, events>>

Next ==
    \/ Register
    \/ NextDay
    \/ \E p \in Procs, u \in registered, a \in TopUpInputs :
          TopUpRequest(p, Token(u), a)
    \/ \E p \in Procs, u \in registered, c \in RequestCodes :
          DebitRequest(p, Token(u), c)
    \/ \E p \in Procs : LockAndUpdate(p)
    \/ \E p \in Procs : Insert(p)
    \/ \E p \in Procs : Commit(p)
    \/ \E p \in Procs : Fault(p)

Spec == Init /\ [][Next]_vars

\* ------------------------------------------------------------ a busy day
\* The state after n sequential top-ups of amount 1 by user 1 on day 1, for
\* the n of PreIssued: n committed rows with the invoice numbers the trigger
\* gave them, so that the daily sequence is about to gain a digit.
PreIssued == {99, 999}

BusyLedger(n) ==
    [i \in 1..n |-> [id |-> i, user_id |-> 1, invoice |-> render_invoice(1, i),
                     service |-> "none", total_amount |-> 1,
                     created_on |-> [date |-> 1, time |-> i],
                     type |-> "TOPUP"]]

InitBusy ==
    /\ registered = {1}
    /\ emails = [u \in {1} |-> "a@mail.id"]
    /\ nextUserId = 2
    /\ \E n \in PreIssued :
          /\ balance = [u \in {1} |-> InitialBalance + n]
          /\ ledger = BusyLedger(n)
          /\ nextId = n + 1
          /\ clock = n + 1
    /\ today = 1
    /\ tx = [p \in Procs |-> Idle]
    /\ events = 0

\* on the busy day the clients top up and pay, and nothing fails
NextBusy ==
    \/ \E p \in Procs, u \in registered, a \in TopUpInputs :
          TopUpRequest(p, Token(u), a)
    \/ \E p \in Procs, u \in registered, c \in RequestCodes :
          DebitRequest(p, Token(u), c)
    \/ \E p \in Procs : LockAndUpdate(p)
    \/ \E p \in Procs : Insert(p)
    \/ \E p \in Procs : Commit(p)

SpecBusy == InitBusy /\ [][NextBusy]_vars

\* ------------------------------------------------------------ readers
\* entries the ledger holds when the readers start
MaxRows == 6
\* largest offset and limit a client sends
MaxOffset == 2
MaxLimit == 2

\* getTransactionHistory: parseInt(req.query.offset) || 0 and
\* req.query.limit ? parseInt(req.query.limit) : 5
DefaultOffset == 0
DefaultLimit == 5

\* a query parameter is the text of a decimal number; <<>> is an absent one
OffsetInputs == {<<>>} \cup {Digits(n) : n \in 0..MaxOffset}
LimitInputs == {<<>>} \cup {Digits(n) : n \in 0..MaxLimit}

\* characters of a query parameter that are not digits, by character code
Dot == 46
LetterA == 97

\* the texts -1, 1.5 and a
MinusOne == <<Dash, 1>>
OneAndAHalf == <<1, Dot, 5>>
Word == <<LetterA>>

\* every text a client sends as offset or limit
OffsetTexts == OffsetInputs \cup {MinusOne, OneAndAHalf, Word}
LimitTexts == LimitInputs \cup {MinusOne, OneAndAHalf, Word}

OffsetMsg == "Offset must be a non-negative integer"
LimitMsg == "Limit must be a positive integer"

\* validateTransactionHistory: offset optional isInt({min: 0}), limit optional
\* isInt({min: 1})
isDigits(s) == Len(s) > 0 /\ \A i \in DOMAIN s : s[i] \in 0..9

\* isInt: an optional sign and decimal digits
isInt(s) == isDigits(s) \/ (Len(s) > 1 /\ s[1] = Dash /\ isDigits(Tail(s)))

\* toInt and parseInt of a text that isInt accepts
toInt(s) == IF s[1] = Dash THEN 0 - ParseInt(Tail(s)) ELSE ParseInt(s)

validOffset(off) == off = <<>> \/ (isInt(off) /\ toInt(off) >= 0)
validLimitFromZero(lim) == lim = <<>> \/ (isInt(lim) /\ toInt(lim) >= 0)
validLimit(lim) == lim = <<>> \/ (isInt(lim) /\ toInt(lim) >= 1)
validateTransactionHistory(off, lim) == validOffset(off) /\ validLimit(lim)

\* handleValidationErrors answers with the first error
HistoryValidationMsg(off, lim) == IF validOffset(off) THEN LimitMsg ELSE OffsetMsg

\* parseInt(undefined) is NaN, and NaN || 0 and 0 || 0 are 0
ParsedOffsetZero(off) == 0
ParsedOffset(off) ==
    IF off = <<>> THEN DefaultOffset
    ELSE IF toInt(off) = 0 THEN DefaultOffset ELSE toInt(off)

ParsedLimitOne(lim) == 1
ParsedLimit(lim) == IF lim # <<>> THEN toInt(lim) ELSE DefaultLimit

\* the rows a statement sent through the pool sees (READ COMMITTED, the
\* default isolation level): the rows of committed transactions, and no row a
\* running transaction has inserted
PendingRows ==
    LET RECURSIVE Of(_)
        Of(S) == IF S = {} THEN <<>>
                 ELSE LET q == CHOOSE x \in S : \A y \in S : x <= y
                      IN (IF tx[q].row # NoRow THEN <<tx[q].row>> ELSE <<>>)
                         \o Of(S \ {q})
    IN Of(Procs)
VisibleRowsDirty == ledger \o PendingRows
VisibleRows == ledger

\* timestamp a is later than timestamp b
Later(a, b) == a.date > b.date \/ (a.date = b.date /\ a.time > b.time)

\* ledger positions of the committed entries of identity u
Mine(rows, u) == {i \in DOMAIN rows : rows[i].user_id = u}

RECURSIVE Orderings(_, _)
\* ORDER BY created_on DESC over the rows at positions S: every sequence of
\* S in which no row comes before a later one (rows with equal timestamps come
\* in any order)
Orderings(rows, S) ==
    IF S = {} THEN {<<>>}
    ELSE UNION {{<<i>> \o s : s \in Orderings(rows, S \ {i})} :
                 i \in {k \in S : \A j \in S :
                           ~Later(rows[j].created_on, rows[k].created_on)}}

Min(a, b) == IF a <= b THEN a ELSE b

\* OFFSET offset LIMIT limit
Window(s, offset, limit) == SubSeq(s, offset + 1, Min(Len(s), offset + limit))

\* description of an entry as the history query selects it
Description(row) == IF row.type = "TOPUP" THEN "Top Up Balance" ELSE row.service

\* the history record of a ledger row
HistoryRecord(row) ==
    [invoice_number |-> row.invoice, transaction_type |-> row.type,
     description |-> Description(row), total_amount |-> row.total_amount,
     created_on |-> row.created_on]

\* listHistory over the committed rows, s being the order the database
\* returned the identity's rows in
getTransactionHistory(rows, s, offset, limit) ==
    [offset |-> offset, limit |-> limit,
     records |-> [k \in DOMAIN Window(s, offset, limit) |->
                     HistoryRecord(rows[Window(s, offset, limit)[k]])]]

toHistoryRecordDTO(record) ==
    [invoice_number |-> record.invoice_number,
     transaction_type |-> record.transaction_type,
     description |-> record.description,
     total_amount |-> record.total_amount,
     created_on |-> record.created_on]

toTransactionHistoryResponseDTOCount(history) ==
    [NoData EXCEPT !.offset = history.offset, !.limit = Len(history.records),
                   !.records = history.records]
toTransactionHistoryResponseDTO(history) ==
    [NoData EXCEPT !.offset = history.offset, !.limit = history.limit,
                   !.records = [k \in DOMAIN history.records |->
                                   toHistoryRecordDTO(history.records[k])]]

\* the balance row of identity u
getBalanceZero(rows, u) == [balance |-> 0]
getBalance(rows, u) == [balance |-> rows[u]]

toBalanceResponseDTO(b) == [NoData EXCEPT !.balance = b.balance]

\* GET /balance: authenticate, then getBalance reads through the pool
GetBalanceRequest(p, h) ==
    /\ Free(p) /\ events < MaxEvents
    /\ events' = events + 1
    /\ IF ~authenticate(h)
       THEN tx' = [tx EXCEPT ![p] = [Idle EXCEPT !.pc = "done", !.op = "balance",
                       !.resp = UnauthorizedResponse]]
       ELSE IF userId(h) \notin DOMAIN balance
       THEN tx' = [tx EXCEPT ![p] = [Idle EXCEPT !.pc = "done", !.op = "balance",
                       !.resp = getBalanceError(UserMsg)]]
       ELSE tx' = [tx EXCEPT ![p] = [Idle EXCEPT !.pc = "done", !.op = "balance",
                       !.user = userId(h), !.l0 = Len(ledger),
                       !.resp = SuccessResponse("balance"),
                       !.data = toBalanceResponseDTO(
                                    getBalance(balance, userId(h)))]]
    /\ UNCHANGED <<registered, emails, nextUserId, balance, ledger, nextId, today, clock>>

\* GET /transaction/history: authenticate, validateTransactionHistory,
\* handleValidationErrors, then getTransactionHistory reads through the pool
HistoryRequest(p, h, off, lim) ==
    /\ Free(p) /\ events < MaxEvents
    /\ events' = events + 1
    /\ IF ~authenticate(h)
       THEN tx' = [tx EXCEPT ![p] = [Idle EXCEPT !.pc = "done", !.op = "history",
                       !.resp = UnauthorizedResponse]]
       ELSE IF validateTransactionHistory(off, lim)
       THEN \E s \in Orderings(VisibleRows, Mine(VisibleRows, userId(h))) :
               tx' = [tx EXCEPT ![p] = [Idle EXCEPT !.pc = "done",
                         !.op = "history", !.user = userId(h),
                         !.l0 = Len(ledger),
                         !.query = [offset |-> off, limit |-> lim],
                         !.resp = SuccessResponse("history"),
                         !.data = toTransactionHistoryResponseDTO(
                                      getTransactionHistory(VisibleRows, s,
                                          ParsedOffset(off), ParsedLimit(lim)))]]
       ELSE tx' = [tx EXCEPT ![p] = [Idle EXCEPT !.pc = "done", !.op = "history",
                       !.query = [offset |-> off, limit |-> lim],
                       !.resp = ValidationResponse(HistoryValidationMsg(off, lim))]]
    /\ UNCHANGED <<registered, emails, nextUserId, balance, ledger, nextId, today, clock>>

\* The state after MaxRows sequential top-ups of amount 1 by user 1, each at
\* an instant of its own; a second user has not registered yet.
InitRead ==
    /\ registered = {1}
    /\ emails = [u \in {1} |-> "a@mail.id"]
    /\ nextUserId = 2
    /\ balance = [u \in {1} |-> InitialBalance + MaxRows]
    /\ ledger = BusyLedger(MaxRows)
    /\ nextId = MaxRows + 1
    /\ today = 1
    /\ clock = MaxRows + 1
    /\ tx = [p \in Procs |-> Idle]
    /\ events = 0

\* the request slot of the reading client
Readers == {2}

\* a client reads while others register, top up and pay; a unit of work may
\* lose its connection once it has inserted its entry
NextRead ==
    \/ Register
    \/ \E p \in Readers, u \in registered : GetBalanceRequest(p, Token(u))
    \/ \E p \in Readers, u \in registered, off \in OffsetInputs,
             lim \in LimitInputs :
          HistoryRequest(p, Token(u), off, lim)
    \/ \E p \in Procs, u \in registered :
          TopUpRequest(p, Token(u), Number(MaxAmount))
    \/ \E p \in Procs, u \in registered, c \in ServiceCodes :
          DebitRequest(p, Token(u), c)
    \/ \E p \in Procs : LockAndUpdate(p)
    \/ \E p \in Procs : Insert(p)
    \/ \E p \in Procs : Commit(p)
    \/ \E p \in Procs : tx[p].pc = "inserted" /\ Fault(p)

SpecRead == InitRead /\ [][NextRead]_vars

\* ------------------------------------------------------------ registration
\* POST /registration, step by step: register opens a transaction and
\* createUser looks the address up among the committed users rows
RegisterRequest(p, e) ==
    /\ Free(p)
    /\ IF \E x \in registered : emails[x] = toLowerCase(e)
       THEN tx' = [tx EXCEPT ![p] = [Idle EXCEPT !.pc = "done", !.op = "register",
                       !.email = e, !.resp = registerError(EmailMsg)]]
       ELSE tx' = [tx EXCEPT ![p] = connect([Idle EXCEPT !.pc = "checked",
                       !.op = "register", !.email = e])]
    /\ UNCHANGED <<registered, emails, nextUserId, balance, ledger, nextId,
                   today, clock, events>>

\* createUser: INSERT INTO users ... RETURNING id; the row and the balance row
\* of the trigger are pending until COMMIT, the serial value is drawn for good
RegisterInsert(p) ==
    /\ tx[p].pc = "checked" /\ nextUserId \in Users
    /\ tx' = [tx EXCEPT ![p].pc = "created", ![p].user = nextUserId]
    /\ nextUserId' = nextUserId + 1
    /\ UNCHANGED <<registered, emails, balance, ledger, nextId, today, clock,
                   events>>

\* auto-rollback on error: the pending users row of transaction t is discarded
RolledBackUsersKept(t) == IF t.pc = "created" THEN registered \cup {t.user} ELSE registered
RolledBackUsers(t) == registered

\* the transaction of slot p ends with ROLLBACK and the generic error response
RegisterAbort(p) ==
    /\ registered' = RolledBackUsers(tx[p])
    /\ emails' = [x \in registered' |->
                     IF x \in registered THEN emails[x] ELSE toLowerCase(tx[p].email)]
    /\ tx' = [tx EXCEPT ![p].pc = "done",
                        ![p].client = release(tx[p]).client,
                        ![p].resp = registerError("connection terminated")]
    /\ UNCHANGED <<balance, ledger, nextId, today, clock, events>>

\* the INSERT statement fails (in the users insert or in the trigger's balance
\* insert) after the serial value has been drawn
RegisterInsertFault(p) ==
    /\ tx[p].pc = "checked" /\ nextUserId \in Users
    /\ nextUserId' = nextUserId + 1
    /\ RegisterAbort(p)

\* the connection drops before COMMIT
RegisterFault(p) ==
    /\ tx[p].pc \in {"checked", "created"}
    /\ UNCHANGED nextUserId
    /\ RegisterAbort(p)

\* the callback returned: COMMIT makes the users row and its balance row
\* visible together
RegisterCommit(p) ==
    /\ tx[p].pc = "created"
    /\ registered' = registered \cup {tx[p].user}
    /\ emails' = [x \in registered' |->
                     IF x \in registered THEN emails[x] ELSE toLowerCase(tx[p].email)]
    /\ balance' = WithRows(balance, initialize_user_balance(tx[p].user))
    /\ tx' = [tx EXCEPT ![p].pc = "done", ![p].client = release(tx[p]).client,
                        ![p].resp = SuccessResponse("register")]
    /\ UNCHANGED <<nextUserId, ledger, nextId, today, clock, events>>

\* clients register, and the registered ones read and top up their balance
NextRegister ==
    \/ \E p \in Procs, e \in EmailInputs : RegisterRequest(p, e)
    \/ \E p \in Procs : RegisterInsert(p)
    \/ \E p \in Procs : RegisterInsertFault(p)
    \/ \E p \in Procs : RegisterFault(p)
    \/ \E p \in Procs : RegisterCommit(p)
    \/ \E p \in Procs, u \in registered : GetBalanceRequest(p, Token(u))

SpecRegister == Init /\ [][NextRegister]_vars

\* ------------------------------------------------------------ the gate
\* Requests arrive with and without credentials.  A token is verified by its
\* signature and its expiry alone, so it outlives the rows of its identity:
\* identity 1 has its rows, a balance and one entry; identity 2 holds a token
\* that still verifies, but the database holds no users row and no balance row
\* for it.
InitGate ==
    /\ registered = {1}
    /\ emails = [u \in {1} |-> "a@mail.id"]
    /\ nextUserId = 2
    /\ balance = [u \in {1} |-> InitialBalance + 1]
    /\ ledger = BusyLedger(1)
    /\ nextId = 2
    /\ today = 1
    /\ clock = 2
    /\ tx = [p \in Procs |-> Idle]
    /\ events = 0

\* what a request carries without a valid bearer token
NoCredentials == {NoHeader, InvalidToken}

\* the Authorization headers of the writing and of the reading requests
Headers == NoCredentials \cup {Token(u) : u \in Users}
ReadHeaders == NoCredentials \cup {Token(u) : u \in registered}

NextGate ==
    \/ \E p \in Procs, h \in ReadHeaders : GetBalanceRequest(p, h)
    \/ \E p \in Procs, h \in ReadHeaders : HistoryRequest(p, h, <<>>, <<>>)
    \/ \E p \in Procs, h \in Headers : TopUpRequest(p, h, Number(1))
    \/ \E p \in Procs, h \in Headers, c \in ServiceCodes : DebitRequest(p, h, c)
    \/ \E p \in Procs : LockAndUpdate(p)
    \/ \E p \in Procs : Insert(p)
    \/ \E p \in Procs : Commit(p)
    \/ \E p \in Procs : Fault(p)

SpecGate == InitGate /\ [][NextGate]_vars

\* ------------------------------------------------------------ midnight
\* The state after n sequential top-ups of amount 1 by user 1 on day 1, for
\* any n up to MaxRows; then the clients go on over midnight.
InitDays ==
    /\ registered = {1}
    /\ emails = [u \in {1} |-> "a@mail.id"]
    /\ nextUserId = 2
    /\ \E n \in 0..MaxRows :
          /\ balance = [u \in {1} |-> InitialBalance + n]
          /\ ledger = BusyLedger(n)
          /\ nextId = n + 1
          /\ clock = n + 1
    /\ today = 1
    /\ tx = [p \in Procs |-> Idle]
    /\ events = 0

NextDays ==
    \/ NextDay
    \/ \E p \in Procs, u \in registered : TopUpRequest(p, Token(u), Number(1))
    \/ \E p \in Procs, u \in registered, c \in ServiceCodes :
          DebitRequest(p, Token(u), c)
    \/ \E p \in Procs : LockAndUpdate(p)
    \/ \E p \in Procs : Insert(p)
    \/ \E p \in Procs : Commit(p)
    \/ \E p \in Procs : Fault(p)

SpecDays == InitDays /\ [][NextDays]_vars

\* ------------------------------------------------------------ rendering
\* largest sequence value rendered
MaxSeq == 1010

\* The trigger is at the point where next_sequence is known: a top up by user
\* 1 on some day has written its balance and inserts its entry, and the
\* sequence value is any n up to MaxSeq.
InitRender ==
    /\ registered = {1}
    /\ emails = [u \in {1} |-> "a@mail.id"]
    /\ nextUserId = 2
    /\ balance = [u \in {1} |-> InitialBalance]
    /\ ledger = <<>>
    /\ nextId = 1
    /\ today \in 1..MaxDay
    /\ clock = 1
    /\ \E n \in 1..MaxSeq :
          tx = [p \in Procs |->
                   IF p = 1
                   THEN [Idle EXCEPT !.pc = "updated", !.op = "topup",
                                     !.user = 1, !.amount = 1, !.day = today,
                                     !.at = clock, !.cur = InitialBalance,
                                     !.newBal = InitialBalance + 1,
                                     !.written = TRUE, !.seq = n,
                                     !.client = TRUE]
                   ELSE Idle]
    /\ events = 1

\* the rest of the trigger: render the number and assign it to the new row
AssignInvoice(p) ==
    /\ tx[p].pc = "updated" /\ tx[p].seq > 0
    /\ tx' = [tx EXCEPT ![p].pc = "inserted",
                 ![p].row = [id |-> nextId,
                             user_id |-> tx[p].user,
                             invoice |-> render_invoice(tx[p].day, tx[p].seq),
                             service |-> tx[p].code,
                             total_amount |-> tx[p].amount,
                             created_on |-> [date |-> tx[p].day, time |-> tx[p].at],
                             type |-> "TOPUP"]]
    /\ nextId' = nextId + 1
    /\ UNCHANGED <<registered, emails, nextUserId, balance, ledger, today, clock, events>>

NextRender == \E p \in Procs : AssignInvoice(p)

SpecRender == InitRender /\ [][NextRender]_vars

\* ------------------------------------------------------------ pages
\* The state after n top-ups of amount 1 by user 1 on day 1 that arrived two
\* at a time: the requests of a pair arrive in the same instant, the row lock
\* serializes them, and both entries carry the instant of arrival.
TiedLedger(n) ==
    [i \in 1..n |-> [BusyLedger(n)[i] EXCEPT
                        !.created_on.time = IF i % 2 = 1 THEN i ELSE i - 1]]

\* entries the ledger holds when the client starts paging
MaxPages == 3

InitPages ==
    /\ registered = {1}
    /\ emails = [u \in {1} |-> "a@mail.id"]
    /\ nextUserId = 2
    /\ \E n \in 0..MaxPages :
          /\ balance = [u \in {1} |-> InitialBalance + n]
          /\ ledger = TiedLedger(n)
          /\ nextId = n + 1
          /\ clock = n + 1
    /\ today = 1
    /\ tx = [p \in Procs |-> Idle]
    /\ events = 0

\* a client pages through its history while it may also top up
NextPages ==
    \/ \E p \in Procs, u \in registered, off \in OffsetInputs,
             lim \in LimitInputs :
          HistoryRequest(p, Token(u), off, lim)
    \/ \E p \in Procs, u \in registered : TopUpRequest(p, Token(u), Number(1))
    \/ \E p \in Procs : LockAndUpdate(p)
    \/ \E p \in Procs : Insert(p)
    \/ \E p \in Procs : Commit(p)

SpecPages == InitPages /\ [][NextPages]_vars

\* a client sends any text as offset and limit while it may also top up
NextQuery ==
    \/ \E p \in Readers, u \in registered, off \in OffsetTexts,
             lim \in LimitTexts :
          HistoryRequest(p, Token(u), off, lim)
    \/ \E p \in Procs, u \in registered : TopUpRequest(p, Token(u), Number(1))
    \/ \E p \in Procs : LockAndUpdate(p)
    \/ \E p \in Procs : Insert(p)
    \/ \E p \in Procs : Commit(p)

SpecQuery == InitPages /\ [][NextQuery]_vars

\* ------------------------------------------------------------ two clients
\* The state after each of two users has registered and topped up 1 on day 1.
InitLive ==
    /\ registered = Users
    /\ emails = [u \in Users |-> IF u = 1 THEN "a@mail.id" ELSE "b@mail.id"]
    /\ nextUserId = 3
    /\ balance = [u \in Users |-> InitialBalance + 1]
    /\ ledger = [i \in 1..2 |-> [BusyLedger(2)[i] EXCEPT !.user_id = i]]
    /\ nextId = 3
    /\ today = 1
    /\ clock = 3
    /\ tx = [p \in Procs |-> Idle]
    /\ events = 0

NextLive ==
    \/ \E p \in Procs, u \in registered : TopUpRequest(p, Token(u), Number(1))
    \/ \E p \in Procs, u \in registered, c \in ServiceCodes :
          DebitRequest(p, Token(u), c)
    \/ \E p \in Procs : LockAndUpdate(p)
    \/ \E p \in Procs : Insert(p)
    \/ \E p \in Procs : Commit(p)
    \/ \E p \in Procs : Fault(p)

\* WF_vars(Insert(p)), written out: Insert(p) is enabled exactly when slot p
\* is at "updated" and every Insert(p) step leaves "updated", so the weak
\* fairness of Insert(p) is []<>(p is not at "updated")
FairInsert(p) == []<>(tx[p].pc # "updated")

\* The event loop runs every callback whose await has resolved, and the
\* database runs every statement it was sent and grants a row lock that stays
\* free to a transaction that waits for it: weak fairness of LockAndUpdate,
\* Insert and Commit.  Faults are not forced to happen.
Fairness ==
    \A p \in Procs :
        /\ WF_vars(LockAndUpdate(p))
        /\ FairInsert(p)
        /\ WF_vars(Commit(p))

SpecLive == InitLive /\ [][NextLive]_vars /\ Fairness

\* ------------------------------------------------------------ a full balance
\* The state after user 1 has topped up 2147483646 at once: the balance is one
\* below the largest value of its column.
InitBrim ==
    /\ registered = {1}
    /\ emails = [u \in {1} |-> "a@mail.id"]
    /\ nextUserId = 2
    /\ balance = [u \in {1} |-> MaxInt32 - 1]
    /\ ledger = [i \in 1..1 |-> [BusyLedger(1)[i] EXCEPT !.total_amount = MaxInt32 - 1]]
    /\ nextId = 2
    /\ today = 1
    /\ clock = 2
    /\ tx = [p \in Procs |-> Idle]
    /\ events = 0

NextBrim ==
    \/ \E p \in Procs, u \in registered, n \in 1..MaxAmount :
          TopUpRequest(p, Token(u), Number(n))
    \/ \E p \in Procs, u \in registered, c \in ServiceCodes :
          DebitRequest(p, Token(u), c)
    \/ \E p \in Procs : LockAndUpdate(p)
    \/ \E p \in Procs : Insert(p)
    \/ \E p \in Procs : Commit(p)

SpecBrim == InitBrim /\ [][NextBrim]_vars

\* ------------------------------------------------------------ derived views
RECURSIVE NetIn(_, _, _, _)
\* sum of the TOPUP amounts minus sum of the PAYMENT amounts of user u among
\* rows[lo..hi]
NetIn(rows, u, lo, hi) ==
    IF lo > hi THEN 0
    ELSE IF lo = hi THEN
        IF rows[lo].user_id # u THEN 0
        ELSE IF rows[lo].type = "TOPUP" THEN rows[lo].total_amount
        ELSE 0 - rows[lo].total_amount
    ELSE LET mid == (lo + hi) \div 2
         IN NetIn(rows, u, lo, mid) + NetIn(rows, u, mid + 1, hi)

Net(rows, u) == NetIn(rows, u, 1, Len(rows))

DoneOk(p) == tx[p].pc = "done" /\ tx[p].resp.http = 200
DoneWith(p, msg) == tx[p].pc = "done" /\ tx[p].resp.message = msg

\* ------------------------------------------------------------ claims

\* C1 (non-negativity): in every committed state every balance row is >= 0.
C1_NonNegative == \A u \in DOMAIN balance : balance[u] >= 0

\* C1 witness: an identity was credited and then debited down to exactly 0.
C1_Witness ==
    \E u \in DOMAIN balance :
        /\ balance[u] = 0
        /\ \E i, j \in DOMAIN ledger :
              /\ i < j
              /\ ledger[i].user_id = u /\ ledger[i].type = "TOPUP"
              /\ ledger[j].user_id = u /\ ledger[j].type = "PAYMENT"

\* C2 (conservation): every balance equals the sum of the identity's TOPUP
\* amounts minus the sum of its PAYMENT amounts, starting from 0.
C2_Conservation == \A u \in DOMAIN balance : balance[u] = Net(ledger, u)

\* C2 witness: an identity with a TOPUP and a PAYMENT entry and money left,
\* while another request on it was aborted.
C2_Witness ==
    \E u \in DOMAIN balance :
        /\ balance[u] > 0
        /\ \E i, j \in DOMAIN ledger :
              /\ ledger[i].user_id = u /\ ledger[i].type = "TOPUP"
              /\ ledger[j].user_id = u /\ ledger[j].type = "PAYMENT"
        /\ \E p \in Procs : tx[p].pc = "done" /\ tx[p].resp.http = 500

\* rows created on day d
RowsOf(d) == {i \in DOMAIN ledger : DATE(ledger[i].created_on) = d}

\* C3 (invoice uniqueness under concurrency): no two ledger entries of the
\* same calendar day carry the same invoice number.
C3_InvoiceUnique ==
    \A i, j \in DOMAIN ledger :
        (i # j /\ DATE(ledger[i].created_on) = DATE(ledger[j].created_on))
            => ledger[i].invoice # ledger[j].invoice

RECURSIVE MaxSeqIn(_, _, _, _)
\* the numerically greatest SEQ among the rows of day d in rows[lo..hi], or 0
MaxSeqIn(rows, d, lo, hi) ==
    IF lo > hi THEN 0
    ELSE IF lo = hi THEN
        IF DATE(rows[lo].created_on) = d THEN SeqOf(rows[lo]) ELSE 0
    ELSE LET mid == (lo + hi) \div 2
         IN Max(MaxSeqIn(rows, d, lo, mid), MaxSeqIn(rows, d, mid + 1, hi))

\* C4 (numeric next sequence): the row a statement inserts gets the SEQ that
\* is one more than the numerically greatest SEQ of the rows of that day the
\* statement sees, also when SEQ 999 and SEQ 1000 both exist.
C4_NumericNext ==
    [][\A p \in Procs :
          (tx[p].pc = "updated" /\ tx'[p].pc = "inserted")
              => SeqOf(tx'[p].row)
                     = MaxSeqIn(ledger, tx[p].day, 1, Len(ledger)) + 1]_vars

\* C5 (invoice monotonicity): among the entries of one calendar day the
\* numeric SEQ strictly increases in commit order.
C5_Monotone ==
    \A i, j \in DOMAIN ledger :
        (i < j /\ DATE(ledger[i].created_on) = DATE(ledger[j].created_on))
            => SeqOf(ledger[i]) < SeqOf(ledger[j])

\* C6 (gap-free daily sequence): on every day the SEQ values of the committed
\* entries are exactly 1..n, n the number of entries created that day.
C6_GapFree ==
    \A i \in DOMAIN ledger :
        LET d == DATE(ledger[i].created_on)
        IN {SeqOf(ledger[k]) : k \in RowsOf(d)} = 1..Cardinality(RowsOf(d))

\* every row committed after the first L rows was inserted by a request of S
\* that ended with success
OnlyRowsOf(S, L) ==
    \A i \in (L + 1)..Len(ledger) : \E p \in S : DoneOk(p) /\ tx[p].row = ledger[i]

\* requests p and q were issued on the same identity in the same committed
\* state (so neither had committed when the other was issued)
SameIssue(p, q) ==
    /\ tx[p].user = tx[q].user
    /\ tx[p].l0 = tx[q].l0
    /\ tx[p].b0 = tx[q].b0

\* C7 (no lost updates): N top-ups of amount a issued on one identity in the
\* same committed state with balance b, all ended with success and nothing
\* else committed since: the balance is b + N*a and exactly N TOPUP entries
\* of amount a were added.
C7_NoLostTopUps ==
    \A S \in SUBSET Procs : \A p \in S :
        (/\ \A q \in S : /\ DoneOk(q) /\ tx[q].op = "topup"
                         /\ SameIssue(p, q) /\ tx[q].amount = tx[p].amount
         /\ OnlyRowsOf(S, tx[p].l0))
        => /\ balance[tx[p].user] = tx[p].b0 + Cardinality(S) * tx[p].amount
           /\ Len(ledger) = tx[p].l0 + Cardinality(S)
           /\ \A i \in (tx[p].l0 + 1)..Len(ledger) :
                 /\ ledger[i].type = "TOPUP"
                 /\ ledger[i].user_id = tx[p].user
                 /\ ledger[i].total_amount = tx[p].amount

\* C7 witness: two top-ups of the same amount were in flight together on one
\* identity with a non-zero balance and both succeeded.
C7_Witness ==
    \E p, q \in Procs :
        /\ p # q /\ DoneOk(p) /\ DoneOk(q)
        /\ tx[p].op = "topup" /\ tx[q].op = "topup"
        /\ SameIssue(p, q) /\ tx[p].amount = tx[q].amount
        /\ tx[p].b0 > 0
        /\ OnlyRowsOf({p, q}, tx[p].l0)

\* C8 (concurrent debits cannot overdraw): two debits of tariff t issued on
\* one identity in the same committed state with t <= b < 2t, both answered
\* by success or InsufficientBalance and nothing else committed since: exactly
\* one succeeded, the balance is b - t and one PAYMENT entry was added.  A
\* credit and a debit issued together leave the balance of a serial order.
C8_NoOverdraftRace ==
    \A p, q \in Procs :
        (/\ p # q /\ tx[p].pc = "done" /\ tx[q].pc = "done"
         /\ SameIssue(p, q)
         /\ tx[q].op = "debit" /\ (DoneOk(q) \/ DoneWith(q, BalanceMsg))
         /\ OnlyRowsOf({p, q}, tx[p].l0))
        => LET b == tx[q].b0
               t == tx[q].amount
               u == tx[q].user
               L == tx[q].l0
           IN /\ (/\ tx[p].op = "debit" /\ tx[p].code = tx[q].code
                  /\ (DoneOk(p) \/ DoneWith(p, BalanceMsg))
                  /\ t <= b /\ b < 2 * t)
                 => /\ DoneOk(p) # DoneOk(q)
                    /\ balance[u] = b - t
                    /\ Len(ledger) = L + 1
                    /\ ledger[L + 1].type = "PAYMENT"
                    /\ ledger[L + 1].user_id = u
                    /\ ledger[L + 1].total_amount = t
              /\ (tx[p].op = "topup" /\ DoneOk(p))
                 => \/ DoneOk(q) /\ balance[u] = b + tx[p].amount - t
                    \/ /\ DoneWith(q, BalanceMsg) /\ b < t
                       /\ balance[u] = b + tx[p].amount

\* C8 witness: two debits of one service raced on a balance that covers only
\* one of them; one succeeded and the other was refused.
C8_Witness ==
    \E p, q \in Procs :
        /\ p # q /\ tx[p].op = "debit" /\ tx[q].op = "debit"
        /\ DoneOk(p) /\ DoneWith(q, BalanceMsg)
        /\ SameIssue(p, q) /\ tx[p].code = tx[q].code
        /\ tx[q].amount <= tx[q].b0 /\ tx[q].b0 < 2 * tx[q].amount
        /\ OnlyRowsOf({p, q}, tx[p].l0)

\* slot p took a step that ended its request
Ended(p) ==
    /\ tx'[p].pc = "done"
    /\ \/ tx'[p] # tx[p]
       \/ tx' = tx /\ events' # events /\ today' = today

\* C9 (failed debit is a no-op): the step in which a debit fails for an
\* unknown service code or for balance < tariff changes no balance row and no
\* ledger entry, of this identity or of any other.
C9_FailedDebitNoOp ==
    [][\A p \in Procs :
          (/\ Ended(p) /\ tx'[p].op = "debit"
           /\ tx'[p].resp.message \in {ServiceMsg, BalanceMsg})
              => balance' = balance /\ ledger' = ledger]_vars

\* C9 witness: both failures happened, the refused debit after another
\* request had committed on the same identity while it was in flight.
C9_Witness ==
    \E p, q \in Procs :
        /\ DoneWith(p, BalanceMsg) /\ tx[p].op = "debit"
        /\ Len(ledger) > tx[p].l0
        /\ ledger[Len(ledger)].user_id = tx[p].user
        /\ DoneWith(q, ServiceMsg)

\* C10 (all-or-nothing unit of work): a step either changes neither a balance
\* nor the ledger (registration only adds a row), or it is the commit of one
\* request and adds exactly one entry together with the matching change of
\* that identity's balance; a request that ends with a failure changes nothing.
C10_AllOrNothing ==
    [][/\ \/ /\ ledger' = ledger
             /\ \A u \in DOMAIN balance :
                   u \in DOMAIN balance' /\ balance'[u] = balance[u]
          \/ /\ Len(ledger') = Len(ledger) + 1
             /\ SubSeq(ledger', 1, Len(ledger)) = ledger
             /\ LET e == ledger'[Len(ledger')]
                IN /\ e.user_id \in DOMAIN balance
                   /\ balance' = [balance EXCEPT ![e.user_id] =
                          IF e.type = "TOPUP" THEN @ + e.total_amount
                          ELSE @ - e.total_amount]
                   /\ \E p \in Procs :
                         /\ tx[p].pc = "inserted" /\ tx'[p].pc = "done"
                         /\ tx'[p].resp.http = 200 /\ tx'[p].row = e
       /\ \A p \in Procs :
             (Ended(p) /\ tx'[p].resp.http # 200)
                 => balance' = balance /\ ledger' = ledger]_vars

\* C10 witness: a transaction was aborted after its INSERT (the serial value
\* it drew is used by no committed or pending row) and answered with 500.
C10_Witness ==
    /\ \E p \in Procs : tx[p].pc = "done" /\ tx[p].resp.http = 500
    /\ nextId - 1 > Len(ledger) + Cardinality({q \in Procs : tx[q].pc = "inserted"})
    /\ Len(ledger) > 0

\* slot p took a step that answered a read request
ReadEnded(p) == Ended(p) /\ tx'[p].op \in {"balance", "history"}

\* C11 (one entry per mutation): in every step the balance amounts that change
\* and the ledger entries that are added go together: no entry is removed or
\* rewritten, at most one is added, the identities whose amount changes are
\* exactly the identity of the added entry, and a step that answers a get
\* balance or a history request, or registers an identity, changes no amount
\* and adds no entry.
C11_OneEntryPerMutation ==
    [][LET changed == {u \in DOMAIN balance :
                          u \notin DOMAIN balance' \/ balance'[u] # balance[u]}
           added == Len(ledger') - Len(ledger)
       IN /\ added \in {0, 1}
          /\ SubSeq(ledger', 1, Len(ledger)) = ledger
          /\ Cardinality(changed) = added
          /\ added = 1 => changed = {ledger'[Len(ledger')].user_id}
          /\ (registered' # registered \/ \E p \in Procs : ReadEnded(p))
                => added = 0 /\ changed = {}]_vars

\* C11 witness: a second identity registered, an entry was committed on top
\* of the initial ones together with its balance change, and a history read
\* was answered after that.
C11_Witness ==
    /\ registered = Users
    /\ Len(ledger) > MaxRows
    /\ \E p \in Procs :
          /\ DoneOk(p) /\ tx[p].op = "history"
          /\ tx[p].l0 = Len(ledger)

\* C12 (account provisioning): in every reachable state the identities are
\* exactly the holders of a balance row; a step that creates an identity
\* creates one identity and its balance row with amount 0 and touches no other
\* row; a registration that ends with a failure leaves no identity and no
\* balance row behind.
C12_Provisioning ==
    /\ [](DOMAIN balance = registered)
    /\ [][/\ registered \subseteq registered'
          /\ registered' # registered =>
                /\ Cardinality(registered' \ registered) = 1
                /\ \A u \in registered' \ registered : balance'[u] = 0
                /\ \A u \in registered : balance'[u] = balance[u]
                /\ ledger' = ledger
          /\ \A p \in Procs :
                (Ended(p) /\ tx'[p].op = "register" /\ tx'[p].resp.http # 200)
                    => registered' = registered /\ balance' = balance]_vars

\* C12 witness: a registration was aborted after its INSERT (its serial id
\* belongs to no identity), a later one committed, and the new identity read
\* its balance.
C12_Witness ==
    /\ 1 \notin registered /\ 2 \in registered
    /\ \E p \in Procs :
          /\ tx[p].pc = "done" /\ tx[p].op = "register" /\ tx[p].user = 1
          /\ tx[p].resp.http = 500
    /\ \E p \in Procs : DoneOk(p) /\ tx[p].op = "balance" /\ tx[p].user = 2

\* slot p ended its unit of work with success in this step
Commits(p) ==
    tx[p].pc = "inserted" /\ tx'[p].pc = "done" /\ tx'[p].resp.http = 200

\* C13 (credit effect): the INSERT of a top-up builds its entry with the
\* invoice number the allocator hands out for it, and the commit of a top-up
\* of amount a > 0 on an identity whose balance is c answers 200 with balance
\* c + a, stores c + a, leaves every other balance alone and appends exactly
\* one entry: that TOPUP entry, of amount a, with no service reference.
C13_CreditEffect ==
    [][\A p \in Procs :
          /\ (tx[p].pc = "updated" /\ tx'[p].pc = "inserted" /\ tx[p].op = "topup")
                => /\ tx'[p].row.invoice = generate_invoice_number(ledger, tx[p].day)
                   /\ tx'[p].row.invoice.date = tx[p].day
          /\ (Commits(p) /\ tx[p].op = "topup")
                => LET u == tx[p].user
                       c == balance[u]
                       a == tx[p].amount
                   IN /\ a > 0
                      /\ tx'[p].resp = SuccessResponse("topup")
                      /\ tx'[p].data.balance = c + a
                      /\ balance' = [balance EXCEPT ![u] = c + a]
                      /\ Len(ledger') = Len(ledger) + 1
                      /\ SubSeq(ledger', 1, Len(ledger)) = ledger
                      /\ LET e == ledger'[Len(ledger')]
                         IN /\ e = tx[p].row
                            /\ e.type = "TOPUP" /\ e.user_id = u
                            /\ e.total_amount = a
                            /\ e.service = "none"]_vars

\* C13 witness: a top-up of the largest amount succeeded on an identity that
\* already held money, although another commit on that identity came between
\* its start and its own commit.
C13_Witness ==
    \E p \in Procs :
        /\ DoneOk(p) /\ tx[p].op = "topup" /\ tx[p].amount = MaxAmount
        /\ tx[p].data.balance > tx[p].b0 + tx[p].amount
        /\ ledger[Len(ledger)] = tx[p].row

\* the last committed entry of identity u is the one slot q inserted
LastEntryOf(u, q) ==
    \E i \in DOMAIN ledger :
        /\ ledger[i] = tx[q].row
        /\ \A j \in DOMAIN ledger : (j > i) => ledger[j].user_id # u

\* C14 (debit effect): the commit of a debit for a known service with tariff
\* t on an identity whose balance is c has c >= t, stores c - t, leaves every
\* other balance alone and appends exactly one entry: a PAYMENT entry of
\* amount t that refers to that service; and a get balance answered while
\* that entry is the identity's last one returns the c - t of that debit.
C14_DebitEffect ==
    [][\A p \in Procs :
          /\ (Commits(p) /\ tx[p].op = "debit")
                => LET u == tx[p].user
                       c == balance[u]
                       t == Tariff(tx[p].code)
                   IN /\ tx[p].code \in ServiceCodes
                      /\ c >= t
                      /\ balance' = [balance EXCEPT ![u] = c - t]
                      /\ tx'[p].newBal = c - t
                      /\ Len(ledger') = Len(ledger) + 1
                      /\ SubSeq(ledger', 1, Len(ledger)) = ledger
                      /\ LET e == ledger'[Len(ledger')]
                         IN /\ e = tx[p].row
                            /\ e.type = "PAYMENT" /\ e.user_id = u
                            /\ e.total_amount = t
                            /\ e.service = tx[p].code
          /\ (ReadEnded(p) /\ tx'[p].op = "balance")
                => /\ tx'[p].resp = SuccessResponse("balance")
                   /\ \A q \in Procs \ {p} :
                         (/\ DoneOk(q) /\ tx[q].op = "debit"
                          /\ tx[q].user = tx'[p].user
                          /\ LastEntryOf(tx[q].user, q))
                            => tx'[p].data.balance = tx[q].newBal]_vars

\* C14 witness: a debit with the larger tariff succeeded on a balance above
\* it and the identity then read its balance, which is not what it was when
\* the debit was issued.
C14_Witness ==
    \E p, q \in Procs :
        /\ DoneOk(q) /\ tx[q].op = "debit" /\ tx[q].code = "PLN"
        /\ DoneOk(p) /\ tx[p].op = "balance" /\ tx[p].user = tx[q].user
        /\ tx[p].l0 = Len(ledger) /\ ledger[Len(ledger)] = tx[q].row
        /\ tx[p].data.balance = tx[q].b0 - Tariff("PLN")
        /\ tx[p].data.balance > 0

\* C15 (debit summary agrees with the ledger): the summary a successful debit
\* returns carries the invoice number, the amount (the tariff), the kind
\* PAYMENT and the timestamp of the entry that its commit appends to the
\* ledger, and the code and the name of the requested service.
C15_SummaryAgrees ==
    [][\A p \in Procs :
          (Commits(p) /\ tx[p].op = "debit")
             => LET e == ledger'[Len(ledger')]
                    d == tx'[p].data
                IN /\ Len(ledger') = Len(ledger) + 1
                   /\ tx'[p].resp = SuccessResponse("debit")
                   /\ d.invoice_number = e.invoice
                   /\ d.total_amount = e.total_amount
                   /\ d.total_amount = Tariff(tx[p].code)
                   /\ d.transaction_type = "PAYMENT"
                   /\ d.transaction_type = e.type
                   /\ d.created_on = e.created_on
                   /\ d.service_code = tx[p].code
                   /\ d.service_code = e.service
                   /\ d.service_name = ServiceName(tx[p].code)]_vars

\* C15 witness: two debits for different services were in flight together;
\* both succeeded and each summary names its own service while both carry
\* the same creation timestamp.
C15_Witness ==
    \E p, q \in Procs :
        /\ DoneOk(p) /\ tx[p].op = "debit" /\ tx[p].code = "PULSA"
        /\ DoneOk(q) /\ tx[q].op = "debit" /\ tx[q].code = "PLN"
        /\ tx[p].data.created_on = tx[q].data.created_on
        /\ tx[p].data.service_name # tx[q].data.service_name
        /\ \E i \in DOMAIN ledger : ledger[i] = tx[p].row
        /\ \E i \in DOMAIN ledger : ledger[i] = tx[q].row

\* entries i and j are of one calendar day, j being the next entry of that
\* day after i in commit order
NextOfDay(i, j) ==
    /\ i < j
    /\ DATE(ledger[i].created_on) = DATE(ledger[j].created_on)
    /\ \A k \in DOMAIN ledger :
          (i < k /\ k < j) => DATE(ledger[k].created_on) # DATE(ledger[i].created_on)

\* C16 (the daily counter is global): two successive entries of one calendar
\* day that belong to different identities, or are one TOPUP and one PAYMENT,
\* carry distinct, consecutive SEQ values: the later one continues the count
\* of the earlier one and does not start at 1 again.
C16_GlobalCounter ==
    \A i, j \in DOMAIN ledger :
        (/\ NextOfDay(i, j)
         /\ \/ ledger[i].user_id # ledger[j].user_id
            \/ ledger[i].type # ledger[j].type)
            => SeqOf(ledger[j]) = SeqOf(ledger[i]) + 1

\* C17 (uniqueness backstop): the table rejects an entry whose invoice number
\* an existing entry carries: no unit of work commits an entry with the
\* invoice number of a committed entry.
C17_Backstop ==
    [][\A p \in Procs :
          Commits(p) => \A i \in DOMAIN ledger :
                            ledger[i].invoice # tx[p].row.invoice]_vars

\* slot p took a step that answered a history request with valid parameters
HistoryStep(p) ==
    /\ ReadEnded(p) /\ tx'[p].op = "history"
    /\ validateTransactionHistory(tx'[p].query.offset, tx'[p].query.limit)

\* number of committed entries of identity u
Count(u) == Cardinality(Mine(ledger, u))

\* committed entries of identity u created later than ts / not earlier than ts
LaterCount(u, ts) ==
    Cardinality({i \in Mine(ledger, u) : Later(ledger[i].created_on, ts)})
NotEarlierCount(u, ts) ==
    Cardinality({i \in Mine(ledger, u) : ~Later(ts, ledger[i].created_on)})

\* the records R are records of distinct committed entries of identity u
FromEntriesOf(u, R) ==
    \A k \in DOMAIN R :
        Cardinality({j \in DOMAIN R : R[j] = R[k]})
            <= Cardinality({i \in Mine(ledger, u) : HistoryRecord(ledger[i]) = R[k]})

\* the records R are the entries of identity u at the places o+1, o+2, ... of
\* an order by creation time, most recent first
WindowOf(u, R, o) ==
    /\ \A j, k \in DOMAIN R : (j < k) => ~Later(R[k].created_on, R[j].created_on)
    /\ \A k \in DOMAIN R :
          /\ LaterCount(u, R[k].created_on) <= o + k - 1
          /\ o + k <= NotEarlierCount(u, R[k].created_on)

\* C18 (history window): a history request of identity u with offset o and
\* limit l is answered with records of distinct entries of u only, ordered by
\* creation time with the most recent first, that stand at the places o+1 ..
\* o+l of that order as far as they exist; with offset 0 and limit 1 the
\* answer is exactly one entry and no entry of u was created later than it.
C18_HistoryWindow ==
    [][\A p \in Procs :
          (/\ HistoryStep(p)
           /\ tx'[p].query.offset # <<>> /\ tx'[p].query.limit # <<>>)
             => LET u == tx'[p].user
                    o == ParseInt(tx'[p].query.offset)
                    l == ParseInt(tx'[p].query.limit)
                    R == tx'[p].data.records
                IN /\ tx'[p].resp = SuccessResponse("history")
                   /\ Len(R) = Min(l, Max(0, Count(u) - o))
                   /\ FromEntriesOf(u, R)
                   /\ WindowOf(u, R, o)
                   /\ (o = 0 /\ l = 1 /\ Count(u) >= 1)
                         => /\ Len(R) = 1
                            /\ LaterCount(u, R[1].created_on) = 0]_vars

\* C18 witness: the ledger holds entries of two identities, and a history
\* request with offset 1 and limit 2 was answered with two records, the
\* second one older than the first.
C18_Witness ==
    \E p \in Procs :
        /\ DoneOk(p) /\ tx[p].op = "history" /\ tx[p].l0 = Len(ledger)
        /\ tx[p].query = [offset |-> <<1>>, limit |-> <<2>>]
        /\ Len(tx[p].data.records) = 2
        /\ Later(tx[p].data.records[1].created_on, tx[p].data.records[2].created_on)
        /\ \E i \in DOMAIN ledger : ledger[i].user_id # tx[p].user
        /\ Count(tx[p].user) > MaxRows

\* C19 (history past the end): a history request whose offset is at least
\* the number of the identity's entries, an identity without entries
\* included, is answered with success and an empty records array.
C19_PastTheEnd ==
    [][\A p \in Procs :
          (/\ HistoryStep(p)
           /\ \/ Count(tx'[p].user) = 0
              \/ /\ tx'[p].query.offset # <<>>
                 /\ ParseInt(tx'[p].query.offset) >= Count(tx'[p].user))
             => /\ tx'[p].resp = SuccessResponse("history")
                /\ tx'[p].data.records = <<>>]_vars

\* C19 witness: an identity with entries asked for its history from an offset
\* equal to their number and got no record.
C19_Witness ==
    \E p \in Procs :
        /\ DoneOk(p) /\ tx[p].op = "history" /\ tx[p].l0 = Len(ledger)
        /\ Count(tx[p].user) > 0
        /\ tx[p].query.offset = Digits(Count(tx[p].user))
        /\ tx[p].data.records = <<>>

RollsBack(p) ==
    /\ tx[p].pc \in InTx /\ tx'[p].pc = "done" /\ tx'[p].resp.http # 200

\* C21 (reads see committed state only): a get balance or history request
\* answered while units of work are running is answered from the committed
\* rows: the balance returned is the committed one and it carries the amount
\* of every committed entry of the identity, the records returned are records
\* of distinct committed entries and are as many as the committed entries
\* allow, so that no entry a running unit of work has inserted is among them;
\* and the entry of a unit of work that rolls back has never been among the
\* committed entries and is not after the rollback.
C21_ReadsCommitted ==
    [][\A p \in Procs :
          /\ (ReadEnded(p) /\ tx'[p].resp.http = 200)
                => LET u == tx'[p].user
                       d == tx'[p].data
                   IN /\ balance[u] = InitialBalance + Net(ledger, u)
                      /\ tx'[p].op = "balance" => d.balance = balance[u]
                      /\ tx'[p].op = "history"
                            => /\ FromEntriesOf(u, d.records)
                               /\ Len(d.records)
                                    = Min(d.limit, Max(0, Count(u) - d.offset))
          /\ (RollsBack(p) /\ tx[p].row # NoRow)
                => /\ \A i \in DOMAIN ledger : ledger[i].id # tx[p].row.id
                   /\ ledger' = ledger /\ balance' = balance]_vars

\* C21 witness: a history request of an identity was answered with records
\* while a unit of work of the same identity had inserted its entry and not
\* yet committed, and after another unit of work had inserted an entry and
\* rolled back.
C21_Witness ==
    \E p, q \in Procs :
        /\ DoneOk(p) /\ tx[p].op = "history" /\ tx[p].l0 = Len(ledger)
        /\ Len(tx[p].data.records) > 0
        /\ tx[q].pc = "inserted" /\ tx[q].user = tx[p].user
        /\ nextId = Len(ledger) + 3

\* C22 (top-up input rejection): a top-up request whose amount is zero,
\* negative, not a number or missing is answered 400 with status 102 and no
\* data in the step that receives it, without opening a transaction, and
\* that step changes no balance row and no ledger entry.
C22_TopUpRejected ==
    [][\A p \in Procs, u \in Users, a \in TopUpInputs :
          (/\ TopUpRequest(p, Token(u), a)
           /\ a.type # "number" \/ a.value <= 0)
             => /\ tx'[p].pc = "done"
                /\ tx'[p].resp.http = 400 /\ tx'[p].resp.status = 102
                /\ tx'[p].data = NoData
                /\ balance' = balance /\ ledger' = ledger
                /\ nextId' = nextId]_vars

\* C22 witness: with a positive balance and an entry in the ledger, a top-up
\* request without amount and one with an amount that is no positive integer
\* have both been rejected.
C22_Witness ==
    /\ \E u \in DOMAIN balance : balance[u] > 0
    /\ Len(ledger) > 0
    /\ \E p, q \in Procs :
          /\ tx[p].pc = "done" /\ tx[p].op = "topup"
          /\ tx[p].resp = ValidationResponse(RequiredMsg)
          /\ tx[q].pc = "done" /\ tx[q].op = "topup"
          /\ tx[q].resp = ValidationResponse(ValidationMsg)

\* C23 (business-rule failures are specific): a debit request with a service
\* code the catalogue does not hold, and a debit whose locked balance is below
\* the tariff, are each answered 400 with status 102, no data and the message
\* of the rule that failed, which is not the generic internal-error response.
C23_SpecificFailures ==
    [][\A p \in Procs :
          /\ \A u \in Users, c \in RequestCodes \ ServiceCodes :
                DebitRequest(p, Token(u), c)
                   => /\ tx'[p].pc = "done" /\ tx'[p].data = NoData
                      /\ tx'[p].resp = [http |-> 400, status |-> 102,
                                        message |-> ServiceMsg]
          /\ (/\ LockAndUpdate(p) /\ tx[p].op = "debit"
              /\ tx[p].user \in DOMAIN balance
              /\ balance[tx[p].user] < Tariff(tx[p].code))
                   => /\ tx'[p].pc = "done" /\ tx'[p].data = NoData
                      /\ tx'[p].resp = [http |-> 400, status |-> 102,
                                        message |-> BalanceMsg]
          /\ (tx'[p].resp.message \in {ServiceMsg, BalanceMsg})
                => tx'[p].resp.http # 500 /\ tx'[p].resp.message # GenericMsg]_vars

\* C23 witness: one debit was refused for its unknown service code and
\* another for a balance below the tariff.
C23_Witness ==
    \E p, q \in Procs :
        /\ tx[p].pc = "done" /\ tx[p].op = "debit"
        /\ tx[p].resp = [http |-> 400, status |-> 102, message |-> ServiceMsg]
        /\ tx[q].pc = "done" /\ tx[q].op = "debit"
        /\ tx[q].resp = [http |-> 400, status |-> 102, message |-> BalanceMsg]
        /\ tx[q].b0 < Tariff(tx[q].code)

\* the generic failure response
GenericResponse == [http |-> 500, status |-> 100, message |-> GenericMsg]

\* C24 (internal faults are generic): a top up that finds no balance row for
\* its identity, and any unit of work that fails with an unexpected
\* persistence fault, is answered with the generic failure response.
C24_GenericFaults ==
    [][\A p \in Procs :
          /\ (/\ LockAndUpdate(p) /\ tx[p].op = "topup"
              /\ tx[p].user \notin DOMAIN balance)
                => tx'[p].pc = "done" /\ tx'[p].resp = GenericResponse
          /\ Fault(p)
                => tx'[p].pc = "done" /\ tx'[p].resp = GenericResponse]_vars

\* C25 (authentication gate): a get balance, top up, create transaction or
\* history request that carries no bearer token, or one that does not
\* verify, is answered 401 with status 108 and no data in the step that
\* receives it; no transaction is opened, and no balance row, no ledger entry
\* and no sequence value changes.
C25_AuthGate ==
    [][\A p \in Procs, h \in NoCredentials :
          (\/ GetBalanceRequest(p, h)
           \/ \E a \in TopUpInputs : TopUpRequest(p, h, a)
           \/ \E c \in RequestCodes : DebitRequest(p, h, c)
           \/ \E off \in OffsetInputs, lim \in LimitInputs :
                 HistoryRequest(p, h, off, lim))
             => /\ tx'[p].pc = "done"
                /\ tx'[p].resp.http = 401 /\ tx'[p].resp.status = 108
                /\ tx'[p].data = NoData /\ tx'[p].user = 0
                /\ balance' = balance /\ ledger' = ledger
                /\ nextId' = nextId]_vars

\* C25 witness: with a balance and an entry in place, a top up and a history
\* request without valid token have both been answered 401.
C25_Witness ==
    /\ \E u \in DOMAIN balance : balance[u] > 0
    /\ Len(ledger) > 0
    /\ \E p, q \in Procs :
          /\ tx[p].pc = "done" /\ tx[p].op = "topup"
          /\ tx[p].resp = UnauthorizedResponse
          /\ tx[q].pc = "done" /\ tx[q].op = "history"
          /\ tx[q].resp = UnauthorizedResponse

\* C26 (get balance is a pure read): a get balance request of an identity
\* is answered with success and the identity's committed balance, which is 0
\* for an identity that has just been created, and the step that answers it
\* changes no balance row, no ledger entry and no identity.
C26_GetBalancePure ==
    [][\A p \in Procs, u \in Users :
          (GetBalanceRequest(p, Token(u)) /\ u \in registered)
             => /\ tx'[p].resp = SuccessResponse("balance")
                /\ tx'[p].data = [NoData EXCEPT !.balance = balance[u]]
                /\ Count(u) = 0 => tx'[p].data.balance = 0
                /\ balance' = balance /\ ledger' = ledger
                /\ registered' = registered /\ nextId' = nextId]_vars

\* C26 witness: after the balance of the first identity has changed, a newly
\* created identity asked for its balance and got 0.
C26_Witness ==
    \E p \in Procs :
        /\ DoneOk(p) /\ tx[p].op = "balance" /\ tx[p].user = 2
        /\ tx[p].data.balance = 0
        /\ Count(2) = 0
        /\ Len(ledger) > MaxRows /\ balance[1] # InitialBalance + MaxRows

\* C27 (duplicate e-mail is refused): a registration with an address that an
\* identity already holds is answered 400 with status 102 and creates no
\* identity and no balance row, and in every reachable state no two
\* identities hold the same address.
C27_UniqueEmail ==
    /\ [](\A x, y \in registered : (x # y) => emails[x] # emails[y])
    /\ [][\A p \in Procs, e \in EmailInputs :
             (/\ RegisterRequest(p, e)
              /\ \E x \in registered : emails[x] = toLowerCase(e))
                => /\ tx'[p].pc = "done"
                   /\ tx'[p].resp = [http |-> 400, status |-> 102,
                                     message |-> EmailMsg]
                   /\ registered' = registered /\ balance' = balance
                   /\ nextUserId' = nextUserId]_vars

\* C28 (debit boundary): the debit that holds the lock on a balance of at
\* least the tariff passes the check and, unless a fault rolls it back,
\* commits the balance minus the tariff, which is 0 when the balance equals
\* the tariff; the debit that finds a balance below the tariff, one below it
\* included, fails with the insufficient-balance response and changes nothing.
C28_DebitBoundary ==
    [][\A p \in Procs :
          /\ (/\ LockAndUpdate(p) /\ tx[p].op = "debit"
              /\ tx[p].user \in DOMAIN balance)
                => LET cur == balance[tx[p].user]
                       tariff == Tariff(tx[p].code)
                   IN /\ (cur >= tariff)
                            => /\ tx'[p].pc = "updated"
                               /\ tx'[p].newBal = cur - tariff
                      /\ (cur < tariff)
                            => /\ tx'[p].pc = "done"
                               /\ tx'[p].resp.message = BalanceMsg
                               /\ balance' = balance /\ ledger' = ledger
          /\ (Commit(p) /\ tx[p].op = "debit")
                => LET u == tx[p].user
                       tariff == Tariff(tx[p].code)
                   IN /\ balance[u] >= tariff
                      /\ balance'[u] = balance[u] - tariff
                      /\ (balance[u] = tariff) => balance'[u] = 0
                      /\ tx'[p].resp = SuccessResponse("debit")]_vars

\* C28 witness: a debit on a balance equal to its tariff has committed and
\* left balance 0, and a debit on a balance one below its tariff has failed.
C28_Witness ==
    \E p, q \in Procs :
        /\ DoneOk(p) /\ tx[p].op = "debit"
        /\ tx[p].b0 = Tariff(tx[p].code) /\ tx[p].newBal = 0
        /\ balance[tx[p].user] = 0
        /\ DoneWith(q, BalanceMsg) /\ tx[q].op = "debit"
        /\ tx[q].b0 = Tariff(tx[q].code) - 1

\* the entries among rows that were created on day d
OfDay(rows, d) == SelectSeq(rows, LAMBDA r : DATE(r.created_on) = d)

\* C29 (day rollover): an entry inserted while the ledger holds no entry
\* created on its day gets SEQ 1 and the date part of that day, however many
\* entries earlier days hold; and the invoice number of every inserted entry
\* is the one its day's entries alone determine.
C29_DayRollover ==
    [][\A p \in Procs :
          Insert(p)
             => LET d == tx[p].day
                    row == tx'[p].row
                IN /\ row.invoice.date = d /\ DATE(row.created_on) = d
                   /\ (RowsOf(d) = {})
                         => SeqOf(row) = 1 /\ row.invoice.seq = <<0, 0, 1>>
                   /\ row.invoice = generate_invoice_number(OfDay(ledger, d), d)]_vars

\* C29 witness: the ledger holds MaxRows entries of day 1 and an entry of
\* day 2 that got SEQ 1.
C29_Witness ==
    /\ Cardinality(RowsOf(1)) = MaxRows
    /\ \E i \in DOMAIN ledger :
          /\ DATE(ledger[i].created_on) = 2
          /\ ledger[i].invoice = [date |-> 2, seq |-> <<0, 0, 1>>]

\* digits(n) as the claim has it: n padded with zeros to 3 digits up to 999,
\* n's decimal digits from 1000 on
PaddedDigits(n) ==
    IF n <= 999 THEN [i \in 1..(3 - Len(Digits(n))) |-> 0] \o Digits(n)
    ELSE Digits(n)

\* C30 (invoice rendering): the invoice number given to the entry on day d
\* for sequence value n is the text 'INV', the date of d as DDMMYYYY, '-' and
\* digits(n); the digits the text ends with parse to n; and no other pair of
\* a day and a sequence value gives the same text.
C30_InvoiceRendering ==
    \A p \in Procs :
        (tx[p].pc = "inserted" /\ tx[p].seq > 0)
           => LET n == tx[p].seq
                  d == tx[p].day
                  text == invoice_number(tx[p].row.invoice)
              IN /\ text = INV \o current_date_str(d) \o <<Dash>> \o PaddedDigits(n)
                 /\ Len(text) = IF n <= 999 THEN 15 ELSE 12 + Len(Digits(n))
                 /\ ParseInt(TrailingDigits(text)) = n
                 /\ \A d2 \in 1..MaxDay, n2 \in 1..MaxSeq :
                       (invoice_number(render_invoice(d2, n2)) = text)
                          => d2 = d /\ n2 = n

\* C30 witness: sequence value 1000 was rendered on day 2 as a number that
\* ends with the four digits 1000.
C30_Witness ==
    \E p \in Procs :
        /\ tx[p].pc = "inserted" /\ tx[p].seq = 1000 /\ tx[p].day = 2
        /\ invoice_number(tx[p].row.invoice)
              = INV \o <<0, 2, 0, 8, 2, 0, 2, 3>> \o <<Dash>> \o <<1, 0, 0, 0>>

EntriesOf(rows, u) == SelectSeq(rows, LAMBDA r : r.user_id = u)

\* C32 (entries are immutable and append-only): every step leaves every
\* committed ledger entry in place with all its fields, so that the ledger,
\* and the sequence of entries of every identity, only grow at the end.
C32_AppendOnly ==
    [][/\ Len(ledger') >= Len(ledger)
       /\ SubSeq(ledger', 1, Len(ledger)) = ledger
       /\ \A u \in Users :
             LET old == EntriesOf(ledger, u)
                 new == EntriesOf(ledger', u)
             IN Len(new) >= Len(old) /\ SubSeq(new, 1, Len(old)) = old]_vars

\* C32 witness: on top of the first entry a top up and a payment have been
\* committed, and a unit of work has failed.
C32_Witness ==
    /\ Len(ledger) >= 3
    /\ \E i, j \in DOMAIN ledger :
          i > 1 /\ j > 1 /\ ledger[i].type = "TOPUP" /\ ledger[j].type = "PAYMENT"
    /\ \E p \in Procs : tx[p].pc = "done" /\ tx[p].resp.http # 200

\* ledger entry r is well-formed
WellFormed(r) ==
    /\ r.total_amount > 0
    /\ r.type \in {"TOPUP", "PAYMENT"}
    /\ (r.type = "TOPUP") <=> (r.service = "none")
    /\ (r.type = "PAYMENT") <=> (r.service \in ServiceCodes)
    /\ r.user_id \in registered /\ r.user_id \in DOMAIN balance

\* C33 (entry well-formedness): in every reachable state every ledger entry,
\* committed or inserted and pending, has an amount above 0, is a TOPUP
\* without service or a PAYMENT with a service of the catalogue, and belongs
\* to a registered identity.
C33_WellFormed ==
    /\ \A i \in DOMAIN ledger : WellFormed(ledger[i])
    /\ \A p \in Procs : (tx[p].row # NoRow) => WellFormed(tx[p].row)

\* C33 witness: the ledger holds a TOPUP and a PAYMENT entry, and a top up
\* that was no positive amount has been rejected.
C33_Witness ==
    /\ \E i, j \in DOMAIN ledger :
          ledger[i].type = "TOPUP" /\ ledger[j].type = "PAYMENT"
    /\ \E p \in Procs :
          /\ tx[p].pc = "done" /\ tx[p].op = "topup"
          /\ tx[p].resp = ValidationResponse(ValidationMsg)

\* C34 (isolation between identities): a step of a top up or a payment of
\* identity A leaves the balance row and the entries of every other identity
\* as they were, and leaves the requests in the other slots alone; and a unit
\* of work that is about to lock its balance row can go on whenever no other
\* unit of work holds the lock of the same identity, whatever units of work
\* of other identities are doing.
C34_Isolation ==
    /\ [](\A p \in Procs :
             (/\ tx[p].pc = "started"
              /\ \A q \in Procs \ {p} :
                    tx[q].pc \notin {"updated", "inserted"} \/ tx[q].user # tx[p].user)
                => ENABLED LockAndUpdate(p))
    /\ [][\A p \in Procs :
             (tx'[p] # tx[p] /\ (tx[p].pc \in InTx \/ tx'[p].pc \in InTx))
                => LET A == IF tx[p].pc \in InTx THEN tx[p].user ELSE tx'[p].user
                   IN /\ \A B \in DOMAIN balance \ {A} :
                            /\ B \in DOMAIN balance' /\ balance'[B] = balance[B]
                            /\ EntriesOf(ledger', B) = EntriesOf(ledger, B)
                      /\ \A q \in Procs \ {p} : tx'[q] = tx[q]]_vars

\* C34 witness: while a unit of work of identity 1 holds the lock of its
\* balance row, a unit of work of identity 2 has committed an entry.
C34_Witness ==
    \E p, q \in Procs :
        /\ tx[p].pc \in {"updated", "inserted"} /\ tx[p].user = 1
        /\ DoneOk(q) /\ tx[q].user = 2 /\ tx[q].op = "topup"
        /\ tx[q].row # NoRow /\ tx[q].row.created_on.time >= tx[p].at
        /\ \E i \in DOMAIN ledger : ledger[i] = tx[q].row

\* C35 (pagination partitions the history): two history requests of one
\* identity with limit 1 and different offsets, no entry having been written
\* between them, return different entries, and the windows at offsets 0 and 1
\* of an identity with two entries return both of them, also when entries
\* carry equal creation timestamps.
C35_Partition ==
    \A p, q \in Procs :
        (/\ p # q /\ DoneOk(p) /\ DoneOk(q)
         /\ tx[p].op = "history" /\ tx[q].op = "history"
         /\ tx[p].user = tx[q].user
         /\ tx[p].l0 = Len(ledger) /\ tx[q].l0 = Len(ledger)
         /\ tx[p].data.limit = 1 /\ tx[q].data.limit = 1
         /\ tx[p].data.offset # tx[q].data.offset)
            => /\ \A j \in DOMAIN tx[p].data.records, k \in DOMAIN tx[q].data.records :
                     tx[p].data.records[j] # tx[q].data.records[k]
               /\ (Count(tx[p].user) = 2 /\ tx[p].data.offset + tx[q].data.offset = 1)
                     => Len(tx[p].data.records) + Len(tx[q].data.records) = 2

\* C36 (history parameter validation): a history request whose offset is
\* negative or not an integer, or whose limit is below 1 or not an integer, is
\* answered 400 with status 102 and no data, nothing having been read; one
\* with offset n >= 0 and limit m >= 1 is answered with the window of m
\* entries from offset n, and n and m come back as the offset and limit used.
C36_HistoryValidation ==
    \A p \in Procs :
        (tx[p].pc = "done" /\ tx[p].op = "history")
           => /\ (\/ tx[p].query.offset \in {MinusOne, OneAndAHalf, Word}
                  \/ tx[p].query.limit \in {MinusOne, OneAndAHalf, Word, Digits(0)})
                    => /\ tx[p].resp.http = 400 /\ tx[p].resp.status = 102
                       /\ tx[p].resp.message \in {OffsetMsg, LimitMsg}
                       /\ tx[p].data = NoData
              /\ \A n \in 0..MaxOffset, m \in 1..MaxLimit :
                    tx[p].query = [offset |-> Digits(n), limit |-> Digits(m)]
                       => /\ tx[p].resp = SuccessResponse("history")
                          /\ tx[p].data.offset = n /\ tx[p].data.limit = m
                          /\ tx[p].l0 = Len(ledger)
                                => /\ Len(tx[p].data.records)
                                         = Min(m, Max(0, Count(tx[p].user) - n))
                                   /\ WindowOf(tx[p].user, tx[p].data.records, n)

\* C36 witness: after an earlier request, one with offset 1 and limit 2 got
\* the two entries after the first.
C36_Witness ==
    \E p \in Procs :
        /\ DoneOk(p) /\ tx[p].op = "history" /\ tx[p].l0 = Len(ledger)
        /\ tx[p].query = [offset |-> Digits(1), limit |-> Digits(2)]
        /\ Len(tx[p].data.records) = 2
        /\ events > 1

\* clients of the pool that are checked out
InUse == Cardinality({p \in Procs : tx[p].client})

\* C37 (guaranteed release and completion): a top-up or debit holds a client
\* of the pool exactly while its transaction is open; once it has ended, by
\* commit, by a business-rule failure or by a fault, it holds no client and
\* no row lock and has its answer, so that no client is checked out when no
\* operation is in flight; and every operation in flight eventually ends.
C37_Release ==
    /\ [](/\ \A p \in Procs :
                /\ tx[p].pc \in InTx => tx[p].client
                /\ tx[p].pc \notin InTx
                      => /\ ~tx[p].client
                         /\ \A u \in Users : ~HoldsLock(p, u)
                /\ tx[p].pc = "done" => tx[p].resp.http \in {200, 400, 401, 404, 500}
          /\ (\A p \in Procs : tx[p].pc \notin InTx) => InUse = 0)
    /\ \A p \in Procs : (tx[p].pc \in InTx) ~> (tx[p].pc = "done")

\* C37 witness: one operation ended by a fault and the other by a
\* business-rule failure, after a commit, and the pool is full.
C37_Witness ==
    \E p, q \in Procs :
        /\ p # q /\ InUse = 0
        /\ tx[p].pc = "done" /\ tx[p].resp.http = 500
        /\ DoneWith(q, BalanceMsg)
        /\ Len(ledger) > 2

\* operation p waits for the balance row lock that operation q holds
Waits(p, q) == tx[p].pc = "started" /\ HoldsLock(q, tx[p].user)

\* C38 (no deadlock between ledger operations): no two operations wait for
\* each other; whenever operations are in flight, one of them can take its
\* next step (it holds its lock, or the lock it needs is free), and one that
\* waits waits for an operation that itself waits for nothing; under fair
\* scheduling every waiting operation gets past the lock, every operation in
\* flight ends committed or failed, and in the end none is in flight.
C38_NoDeadlock ==
    /\ [](/\ \A p \in Procs : \A q \in Procs \ {p} : ~(Waits(p, q) /\ Waits(q, p))
          /\ \A p \in Procs :
                tx[p].pc = "started"
                   => \/ ENABLED LockAndUpdate(p)
                      \/ \E q \in Procs \ {p} :
                            Waits(p, q) /\ tx[q].pc \in {"updated", "inserted"}
          /\ (\E p \in Procs : tx[p].pc \in InTx)
                => \E p \in Procs :
                      \/ tx[p].pc \in {"updated", "inserted"}
                      \/ tx[p].pc = "started" /\ ENABLED LockAndUpdate(p))
    /\ \A p \in Procs :
          /\ (tx[p].pc = "started") ~> (tx[p].pc \in {"updated", "done"})
          /\ (tx[p].pc \in InTx)
                ~> (DoneOk(p) \/ (tx[p].pc = "done" /\ tx[p].resp.http = 500)
                               \/ DoneWith(p, BalanceMsg))
    /\ <>[](\A p \in Procs : tx[p].pc \notin InTx)

\* C38 witness: an operation waits for the row lock of an operation on the
\* same identity that has inserted its entry, after an operation on the other
\* identity has drawn from the day's sequence.
C38_Witness ==
    \E p, q \in Procs :
        /\ Waits(p, q) /\ tx[q].pc = "inserted"
        /\ \E i \in DOMAIN ledger : i > 2 /\ ledger[i].user_id # tx[q].user

\* C39 (bounded balance): every stored balance is within 0..2147483647 and
\* equals the net of the identity's entries; a top-up that would raise the
\* balance above 2147483647 ends in its update statement with the generic
\* 500 answer, the balance and the ledger staying as they were, and no entry
\* of a failed top-up is ever in the ledger.
C39_BoundedBalance ==
    /\ [](\A u \in DOMAIN balance :
             /\ balance[u] \in 0..MaxInt32
             /\ balance[u] = Net(ledger, u))
    /\ [][\A p \in Procs :
             (/\ tx[p].pc = "started" /\ tx[p].op = "topup"
              /\ tx'[p] # tx[p]
              /\ tx[p].amount > MaxInt32 - balance[tx[p].user])
                => /\ tx'[p].pc = "done"
                   /\ tx'[p].resp = GenericResponse
                   /\ tx'[p].data = NoData /\ tx'[p].row = NoRow
                   /\ balance' = balance /\ ledger' = ledger]_vars

\* C39 witness: at balance 2147483646 a top-up of 2 has failed with the
\* generic answer and a top-up of 1 has committed, the balance now being
\* 2147483647.
C39_Witness ==
    \E p, q \in Procs :
        /\ tx[p].pc = "done" /\ tx[p].op = "topup" /\ tx[p].resp = GenericResponse
        /\ DoneOk(q) /\ tx[q].op = "topup"
        /\ balance[1] = MaxInt32 /\ Len(ledger) = 2

====
